---- MODULE Spec2Model ----
(***************************************************************************)
(* Model of 30-create-large-multi-bin.py: the planning loop of             *)
(* generate_random_bin_files_parallel, the multiprocessing.Pool that runs  *)
(* generate_single_file over the planned items, and the progress_monitor   *)
(* thread that drains the shared progress queue.                           *)
(*                                                                         *)
(* Byte quantities are fixed-point numbers: the integer x stands for       *)
(* x / Scale bytes, so that the non-integral sizes the script computes     *)
(* (0.12 * 1024 * 1024 * 1024, 0.1 * 1024 * 1024, a fractional final item) *)
(* and the int() truncations applied to them can be represented.           *)
(***************************************************************************)
EXTENDS Integers, Sequences, FiniteSets, TLC

\* ---------------------------------------------------------------- bounds
Scale == 2          \* fixed-point denominator: x stands for x / Scale bytes
MaxTotal == 5       \* largest total_size_bytes drawn, in whole bytes
MaxFile == 2        \* largest min_file_size / max_file_size drawn, in whole bytes
MaxItems == 2       \* longest plan handed to the pool
MaxCpu == 2         \* largest multiprocessing.cpu_count() drawn

\* ------------------------------------------------------ program constants
buffer_size == 512 * 1024      \* bytes per chunk
MaxPool == 16                  \* cap on the number of pool processes
ReportInterval == 5            \* seconds between two progress reports

\* ------------------------------------------------------ platform constant
\* bytes in the buffer of the file object that open(filename, "wb") returns:
\* the block size of the file system (st_blksize)
BlockSize == 4096

\* bytes in the file that backs a semaphore of the pool's queues
SemaphoreSize == 32

VARIABLES
    \* the largest size a process may give a file (RLIMIT_FSIZE), -1 when
    \* there is no limit
    rlimit_fsize,
    \* generate_random_bin_files_parallel: configuration and planning loop
    total_size_bytes, min_file_size, max_file_size,
    file_tasks, bytes_written_total, file_count,
    \* generate_random_bin_files_parallel: position of the main thread
    main_pc,
    \* multiprocessing.Pool: processes, undispatched tasks, results in flight
    cpu_count, num_processes, next_task, worker, outqueue, results,
    \* manager.Queue() and the manager process behind it
    progress_queue, manager_up,
    \* progress_monitor thread
    mon_pc, process_info, completed_files, completed_size,
    \* filesystem: bytes on disk per item, -1 when the file does not exist
    disk,
    \* history: per item the last event put on the queue and the last event
    \* consumed by the monitor, and the items whose process was terminated
    \* while running them
    emitted, received, killed

env_vars == <<rlimit_fsize>>
plan_vars == <<total_size_bytes, min_file_size, max_file_size,
               file_tasks, bytes_written_total, file_count>>
pool_vars == <<cpu_count, num_processes, next_task, worker, outqueue, results>>
queue_vars == <<progress_queue, manager_up>>
mon_vars == <<mon_pc, process_info, completed_files, completed_size>>
hist_vars == <<emitted, received, killed>>

vars == <<env_vars, plan_vars, main_pc, pool_vars, queue_vars, mon_vars, disk, hist_vars>>

\* ------------------------------------------------------ pure helpers
Min2(a, b) == IF a <= b THEN a ELSE b

\* whole bytes n as a fixed-point value
Bytes(n) == n * Scale

\* x stands for a whole number of bytes
IsWhole(x) == x % Scale = 0

\* Python int() of a float: truncation toward zero
PyInt(x) == IF x >= 0 THEN (x \div Scale) * Scale
            ELSE -(((-x) \div Scale) * Scale)

\* randint with the lower end one too low
RandIntBelow(a, b) == {x \in (a - Scale)..b : x % Scale = 0}

\* random.randint(a, b) for integral a, b: any integer N with a <= N <= b;
\* the empty set stands for the ValueError "empty range" raised when a > b
RandInt(a, b) == {x \in a..b : IsWhole(x)}

\* max_possible without the clamp to the bytes remaining
MaxPossibleUnclamped(mx, remaining) == mx

\* max_possible = min(max_file_size, remaining_bytes)
MaxPossible(mx, remaining) == Min2(mx, remaining)

\* the sizes the loop body can choose for the current file
CurrentFileSizes(remaining, mn, mx) ==
    IF remaining < mn
    THEN {remaining}
    ELSE RandInt(PyInt(mn), PyInt(MaxPossible(mx, remaining)))

\* decimal digits of n >= 0, most significant first
RECURSIVE Digits(_)
Digits(n) == IF n < 10 THEN <<n>> ELSE Append(Digits(n \div 10), n % 10)

RECURSIVE ZeroPad(_, _)
ZeroPad(ds, width) == IF Len(ds) >= width THEN ds ELSE ZeroPad(<<0>> \o ds, width)

\* a name built from a counter that advances every second file only
FilenameStale(n) == ZeroPad(Digits(n \div 2), 4)

\* f"d{file_count:04d}.bin": the digit string between "d" and ".bin"
Filename(n) == ZeroPad(Digits(n), 4)

RECURSIVE SumSizes(_)
SumSizes(tasks) ==
    IF tasks = <<>> THEN 0 ELSE tasks[1].size + SumSizes(Tail(tasks))

\* ------------------------------------------------------ events
Items == 1..Len(file_tasks)

Pids == 1..MaxCpu

\* the dictionaries generate_single_file puts on the queue; the message,
\* progress, speed and elapsed fields only feed the printed text
StartedEvent(pid, task) ==
    [pid |-> pid, filename |-> task.name, status |-> "started",
     file_size |-> task.size, bytes_written |-> 0]

\* a progress message that reports the bytes still to write
ProgressEventRemaining(pid, task, bytes_written) ==
    [pid |-> pid, filename |-> task.name, status |-> "progress",
     file_size |-> task.size, bytes_written |-> task.size - bytes_written]

ProgressEvent(pid, task, bytes_written) ==
    [pid |-> pid, filename |-> task.name, status |-> "progress",
     file_size |-> task.size, bytes_written |-> bytes_written]

CompletedEvent(pid, task) ==
    [pid |-> pid, filename |-> task.name, status |-> "completed",
     file_size |-> 0, bytes_written |-> 0]

ErrorEvent(pid, task) ==
    [pid |-> pid, filename |-> task.name, status |-> "error",
     file_size |-> 0, bytes_written |-> 0]

\* the item a filename was planned for
ItemOf(filename) == CHOOSE i \in Items : file_tasks[i].name = filename

\* no event of the item yet
NoEvent ==
    [pid |-> 0, filename |-> <<>>, status |-> "none",
     file_size |-> 0, bytes_written |-> 0]

\* a pool process: its position in generate_single_file, the item it runs
\* (0 for none), the local bytes_written, the whole seconds since
\* last_report_time, the value of current_time - last_report_time that the
\* last report check compared with the interval, and the bytes that f.write
\* has accepted into the buffer of the file object and that are not in the
\* file yet
IdleWorker ==
    [pc |-> "idle", item |-> 0, bytes_written |-> 0, since |-> 0, gap |-> 0,
     buffered |-> 0]

NoInfo == [filename |-> <<>>, bytes_written |-> -1, file_size |-> -1]

\* state of everything behind the planning loop before the pool is set up
NotStarted ==
    /\ num_processes = 0
    /\ next_task = 1
    /\ worker = [w \in Pids |-> IdleWorker]
    /\ outqueue = <<>>
    /\ results = {}
    /\ progress_queue = <<>>
    /\ manager_up = FALSE
    /\ mon_pc = "unstarted"
    /\ process_info = [p \in Pids |-> NoInfo]
    /\ completed_files = 0
    /\ completed_size = 0

\* ------------------------------------------------------ file size limit
\* RLIM_INFINITY
Unlimited == -1

\* ------------------------------------------------------ planning loop
\* the configurations drawn.  min_file_size is at least one byte: below
\* that int(min_file_size) <= 0, the loop can plan sizes of zero or less
\* and the number of its iterations has no bound
ConfigValues == (-Scale)..Bytes(MaxFile)
MinValues == Bytes(1)..Bytes(MaxFile)
TotalValues == (-Scale)..Bytes(MaxTotal)

PlanInit ==
    /\ rlimit_fsize = Unlimited
    /\ total_size_bytes \in TotalValues
    /\ min_file_size \in MinValues
    /\ max_file_size \in ConfigValues
    /\ file_tasks = <<>>
    /\ bytes_written_total = 0
    /\ file_count = 0
    /\ main_pc = "plan"
    /\ cpu_count = 1
    /\ NotStarted
    /\ disk = <<>>
    /\ emitted = <<>>
    /\ received = <<>>
    /\ killed = {}

\* one iteration of "while bytes_written_total < total_size_bytes"
PlanStep ==
    /\ main_pc = "plan"
    /\ bytes_written_total < total_size_bytes
    /\ LET remaining_bytes == total_size_bytes - bytes_written_total
           sizes == CurrentFileSizes(remaining_bytes, min_file_size, max_file_size)
       IN  /\ sizes # {}
           /\ \E current_file_size \in sizes :
                /\ file_tasks' = Append(file_tasks,
                       [name |-> Filename(file_count), size |-> current_file_size])
                /\ bytes_written_total' = bytes_written_total + current_file_size
                /\ file_count' = file_count + 1
    /\ disk' = Append(disk, -1)
    /\ emitted' = Append(emitted, NoEvent)
    /\ received' = Append(received, NoEvent)
    /\ UNCHANGED <<env_vars, total_size_bytes, min_file_size, max_file_size,
                   main_pc, pool_vars, queue_vars, mon_vars, killed>>

\* random.randint raises ValueError on an empty range; nothing catches it
PlanRaise ==
    /\ main_pc = "plan"
    /\ bytes_written_total < total_size_bytes
    /\ CurrentFileSizes(total_size_bytes - bytes_written_total,
                        min_file_size, max_file_size) = {}
    /\ main_pc' = "fatal"
    /\ UNCHANGED <<env_vars, plan_vars, pool_vars, queue_vars, mon_vars, disk, hist_vars>>

\* the loop condition is false: the plan is handed to the pool
PlanExit ==
    /\ main_pc = "plan"
    /\ ~(bytes_written_total < total_size_bytes)
    /\ main_pc' = "planned"
    /\ UNCHANGED <<env_vars, plan_vars, pool_vars, queue_vars, mon_vars, disk, hist_vars>>

PlanNext == PlanStep \/ PlanRaise \/ PlanExit

PlanSpec == PlanInit /\ [][PlanNext]_vars

PlanFairSpec == PlanSpec /\ WF_vars(PlanNext)

\* ------------------------------------------------------ the pool's input
\* item sizes the pool is run on: one byte (a single short chunk), two
\* buffers (two full chunks), and for the last item a fraction of a byte,
\* which is what "current_file_size = remaining_bytes" yields for a
\* non-integral total.  Only the first item of a plan may be the large one.
SmallSize == Bytes(1)
LargeSize == 2 * Bytes(buffer_size)
FractionSize == Scale - 1

Plans ==
    UNION {
      { [i \in 1..n |-> [name |-> Filename(i - 1), size |-> sz[i]]] :
          sz \in { f \in [1..n -> {SmallSize, LargeSize, FractionSize}] :
                     /\ \A i \in 1..(n - 1) : f[i] # FractionSize
                     /\ \A i \in 1..n : f[i] = LargeSize => i = 1 } }
      : n \in 1..MaxItems }

\* bytes in a file that a target path already holds when the run begins
\* (the names d0000.bin, d0001.bin, ... are the same in every run)
ExistingSize == LargeSize + SmallSize

\* the working directory when the run begins: clean, or holding the first
\* file of an earlier run, which used the same names
DirectoryBefore ==
    {[i \in Items |-> -1],
     [i \in Items |-> IF i = 1 THEN ExistingSize ELSE -1]}

\* the file size limits a run is given: none, no byte at all, one block,
\* one chunk and a block, one byte less than the large item
FileSizeLimits ==
    {Unlimited, 0, Bytes(BlockSize), Bytes(buffer_size) + Bytes(BlockSize),
     LargeSize - Bytes(1)}

RECURSIVE MaxSize(_)
MaxSize(tasks) ==
    IF Len(tasks) = 1 THEN tasks[1].size
    ELSE LET m == MaxSize(Tail(tasks))
         IN  IF tasks[1].size >= m THEN tasks[1].size ELSE m

\* the state in which the planning loop has just ended with a plan
Init ==
    /\ rlimit_fsize \in FileSizeLimits
    /\ file_tasks \in Plans
    /\ total_size_bytes = SumSizes(file_tasks)
    /\ min_file_size = Bytes(1)
    /\ max_file_size = PyInt(MaxSize(file_tasks)) + Bytes(1)
    /\ bytes_written_total = total_size_bytes
    /\ file_count = Len(file_tasks)
    /\ main_pc = "planned"
    /\ cpu_count \in 1..MaxCpu
    /\ NotStarted
    /\ disk \in DirectoryBefore
    /\ emitted = [i \in Items |-> NoEvent]
    /\ received = [i \in Items |-> NoEvent]
    /\ killed = {}

\* ------------------------------------------------------ main thread
Min3(a, b, c) == Min2(a, Min2(b, c))

\* num_processes = min(multiprocessing.cpu_count(), 16, len(file_tasks))
NumProcesses(cpus, ntasks) == Min3(cpus, MaxPool, ntasks)

\* "while completed_files < total_files"
MonitorLoops(done, total_files) == done < total_files

\* multiprocessing.Manager() starts the manager process, which needs a
\* directory for its socket: tempfile tries each candidate by writing a
\* file, which the file size limit must allow
ManagerStarts(limit) == limit = Unlimited \/ limit >= Bytes(1)

\* multiprocessing.Pool() creates the locks of its queues, semaphores
\* backed by files, which the file size limit must allow
PoolStarts(limit) == limit = Unlimited \/ limit >= Bytes(SemaphoreSize)

\* num_processes is computed and the manager and its queue are created;
\* an exception of Manager() is outside every try block and ends the call
StartManager ==
    /\ main_pc = "planned"
    /\ num_processes' = NumProcesses(cpu_count, Len(file_tasks))
    /\ IF ManagerStarts(rlimit_fsize)
       THEN manager_up' = TRUE /\ main_pc' = "managed"
       ELSE manager_up' = FALSE /\ main_pc' = "fatal"
    /\ UNCHANGED <<env_vars, plan_vars, cpu_count, next_task, worker, outqueue,
                   results, progress_queue, mon_vars, disk, hist_vars>>

\* monitor_thread.start(), then time.sleep(1)
StartMonitor ==
    /\ main_pc = "managed"
    /\ mon_pc' = "entry"
    /\ main_pc' = "monitored"
    /\ UNCHANGED <<env_vars, plan_vars, pool_vars, queue_vars, process_info,
                   completed_files, completed_size, disk, hist_vars>>

\* "with multiprocessing.Pool(processes=num_processes) as pool" and the
\* call of imap_unordered; Pool(processes=0) raises ValueError and a pool
\* whose locks cannot be created raises OSError, which the except clause
\* prints
CreatePool ==
    /\ main_pc = "monitored"
    /\ main_pc' = IF num_processes < 1 \/ ~PoolStarts(rlimit_fsize)
                  THEN "join" ELSE "pool"
    /\ UNCHANGED <<env_vars, plan_vars, pool_vars, queue_vars, mon_vars, disk,
                   hist_vars>>

\* pool.terminate(): every pool process is stopped where it stands
Terminated(wk) == [wk EXCEPT !.pc = "dead"]

\* the process holds a task: it is in generate_single_file or has not yet
\* delivered the task's outcome
Busy(wk) ==
    wk.pc \in {"entered", "started", "loop", "written", "report", "closed",
              "except", "return", "raise"}

\* "for result in pool.imap_unordered(...)": the next result off the pool.
\* A task that raised re-raises here and the loop is left; after the last
\* result the loop ends.  Either way the with block is about to be left
ConsumeResult ==
    /\ main_pc = "pool"
    /\ outqueue # <<>>
    /\ LET res == Head(outqueue)
       IN  IF res.ok
           THEN /\ results' = results \cup {res.item}
                /\ main_pc' = IF Cardinality(results') = Len(file_tasks)
                               THEN "exit" ELSE "pool"
           ELSE /\ main_pc' = "exit"
                /\ UNCHANGED results
    /\ outqueue' = Tail(outqueue)
    /\ UNCHANGED <<env_vars, plan_vars, cpu_count, num_processes, next_task,
                   worker, queue_vars, mon_vars, disk, hist_vars>>

\* exit of the with block: pool.terminate(), after which the except clause
\* prints the exception that left the block, if any
TerminatePool ==
    /\ main_pc = "exit"
    /\ main_pc' = "join"
    /\ worker' = [w \in Pids |-> Terminated(worker[w])]
    /\ killed' = killed \cup
           {worker[w].item : w \in {v \in Pids : Busy(worker[v])}}
    /\ UNCHANGED <<env_vars, plan_vars, cpu_count, num_processes, next_task,
                   outqueue, results, queue_vars, mon_vars, disk, emitted,
                   received>>

\* monitor_thread.join(timeout=5): returns when the thread has ended or
\* when the timeout has passed
Join ==
    /\ main_pc = "join"
    /\ main_pc' = "joined"
    /\ UNCHANGED <<env_vars, plan_vars, pool_vars, queue_vars, mon_vars, disk, hist_vars>>

\* manager.shutdown(); return file_count
ShutdownAndReturn ==
    /\ main_pc = "joined"
    /\ manager_up' = FALSE
    /\ main_pc' = "returned"
    /\ UNCHANGED <<env_vars, plan_vars, pool_vars, progress_queue, mon_vars, disk, hist_vars>>

\* ------------------------------------------------------ generate_single_file
Put(ev) ==
    /\ progress_queue' = Append(progress_queue, ev)
    /\ emitted' = [emitted EXCEPT ![ItemOf(ev.filename)] = ev]

\* a task iterator that hands the same task out again
NextUndispatchedSame(n) == n

\* imap_unordered walks file_tasks once: after task n comes task n + 1
NextUndispatched(n) == n + 1

\* a pool process takes the next task off the task queue and enters
\* generate_single_file with it, for as long as the pool is not terminated
TakeTask(w) ==
    /\ main_pc \in {"pool", "exit"}
    /\ w <= num_processes
    /\ worker[w].pc = "idle"
    /\ next_task <= Len(file_tasks)
    /\ next_task' = NextUndispatched(next_task)
    /\ worker' = [worker EXCEPT ![w] =
                    [pc |-> "entered", item |-> next_task,
                     bytes_written |-> 0, since |-> 0, gap |-> 0,
                     buffered |-> 0]]
    /\ UNCHANGED <<env_vars, plan_vars, main_pc, cpu_count, num_processes, outqueue,
                   results, queue_vars, mon_vars, disk, hist_vars>>

\* progress_queue.put of the "started" message, a call to the manager
\* process that other pool processes' puts can overtake
PutStarted(w) ==
    /\ worker[w].pc = "entered"
    /\ Put(StartedEvent(w, file_tasks[worker[w].item]))
    /\ worker' = [worker EXCEPT ![w].pc = "started"]
    /\ UNCHANGED <<env_vars, plan_vars, main_pc, cpu_count, num_processes, next_task,
                   outqueue, results, manager_up, mon_vars, disk, received,
                   killed>>

\* the process has left the try block through an exception: the locals of
\* the with block are gone and the file object is closed
Excepted(wk) ==
    [pc |-> "except", item |-> wk.item, bytes_written |-> 0, since |-> 0,
     gap |-> 0, buffered |-> 0]

\* open(filename, "wb"): creates or truncates the file, or raises
Open(w) ==
    /\ worker[w].pc = "started"
    /\ \E ok \in BOOLEAN :
         IF ok
         THEN /\ disk' = [disk EXCEPT ![worker[w].item] = 0]
              /\ worker' = [worker EXCEPT ![w].pc = "loop"]
         ELSE /\ worker' = [worker EXCEPT ![w] = Excepted(@)]
              /\ UNCHANGED disk
    /\ UNCHANGED <<env_vars, plan_vars, main_pc, cpu_count, num_processes, next_task,
                   outqueue, results, queue_vars, mon_vars, hist_vars>>

\* current_buffer_size = min(buffer_size, remaining)
CurrentBufferSize(file_size, bytes_written) ==
    Min2(Bytes(buffer_size), file_size - bytes_written)

\* the random sources that can deliver the chunk: os.urandom raises
\* TypeError for a float argument, and then (or on any other failure of
\* os.urandom) the fallback generator is used
Sources(n) == IF IsWhole(n) THEN {"urandom", "fallback"} ELSE {"fallback"}

\* len(random_bytes): os.urandom(n) returns n bytes, the fallback
\* generates range(int(n)) bytes
RandomBytesLen(source, n) == IF source = "urandom" THEN n ELSE PyInt(n)

\* write(2) of n bytes at the end of a file of d bytes: the bytes the
\* system takes, which stop at the file size limit; none taken of n > 0
\* is the error EFBIG
Accepted(d, n, limit) ==
    IF limit = Unlimited THEN n
    ELSE IF limit - d <= 0 THEN 0
    ELSE Min2(n, limit - d)

\* flush of the file object: the buffered bytes are written until none is
\* left or a write fails; ok, and the bytes then in the file
Flush(buffered, d, limit) ==
    LET a == Accepted(d, buffered, limit)
    IN  [ok |-> a = buffered, disk |-> d + a]

\* f.write(random_bytes) on the file object: a chunk that fits into the
\* free part of the buffer is only buffered; otherwise the buffer is
\* flushed, the chunk is written to the file for as long as more than a
\* buffer of it remains, and the rest is buffered.  The outcome: ok (FALSE
\* when f.write raises), the bytes then in the file and in the buffer
Write(buffered, d, len, limit) ==
    IF len <= Bytes(BlockSize) - buffered
    THEN [ok |-> TRUE, disk |-> d, buffered |-> buffered + len]
    ELSE LET fl == Flush(buffered, d, limit)
         IN  IF ~fl.ok
             THEN [ok |-> FALSE, disk |-> fl.disk, buffered |-> 0]
             ELSE IF len <= Bytes(BlockSize)
             THEN [ok |-> TRUE, disk |-> fl.disk, buffered |-> len]
             ELSE LET a == Accepted(fl.disk, len, limit)
                  IN  IF len - a > Bytes(BlockSize)
                      THEN [ok |-> FALSE, disk |-> fl.disk + a, buffered |-> 0]
                      ELSE [ok |-> TRUE, disk |-> fl.disk + a,
                            buffered |-> len - a]

\* whole seconds between two readings of the clock (line 57) of a task:
\* none, just less than a report interval, or a whole interval, whatever
\* the size of the chunk
ChunkSeconds == {0, ReportInterval - 1, ReportInterval}

\* "if current_time - last_report_time >= 5.0"
ReportDue(gap) == gap >= ReportInterval

\* the body of "while bytes_written < file_size" up to line 54: a chunk is
\* generated and handed to f.write, and bytes_written advances; when
\* f.write raises the with block is left, which closes the file
Chunk(w) ==
    /\ worker[w].pc = "loop"
    /\ worker[w].bytes_written < file_tasks[worker[w].item].size
    /\ LET i == worker[w].item
           task == file_tasks[i]
           n == CurrentBufferSize(task.size, worker[w].bytes_written)
       IN  \E source \in Sources(n) :
             LET wr == Write(worker[w].buffered, disk[i],
                             RandomBytesLen(source, n), rlimit_fsize)
             IN  /\ disk' = [disk EXCEPT ![i] = wr.disk]
                 /\ worker' = [worker EXCEPT ![w] =
                        IF wr.ok
                        THEN [@ EXCEPT !.pc = "written",
                                       !.bytes_written = @ + n,
                                       !.buffered = wr.buffered]
                        ELSE Excepted(@)]
    /\ UNCHANGED <<env_vars, plan_vars, main_pc, cpu_count, num_processes,
                   next_task, outqueue, results, queue_vars, mon_vars,
                   hist_vars>>

\* lines 57-58: the clock is read and compared with last_report_time
CheckReport(w) ==
    /\ worker[w].pc = "written"
    /\ \E dt \in ChunkSeconds :
         LET gap == worker[w].since + dt
         IN  worker' = [worker EXCEPT
                          ![w].pc = IF ReportDue(gap) THEN "report" ELSE "loop",
                          ![w].since = gap,
                          ![w].gap = gap]
    /\ UNCHANGED <<env_vars, plan_vars, main_pc, cpu_count, num_processes,
                   next_task, outqueue, results, queue_vars, mon_vars, disk,
                   hist_vars>>

\* lines 59-78: the "progress" message is put and last_report_time is set
\* to the time read at line 57
PutProgress(w) ==
    /\ worker[w].pc = "report"
    /\ Put(ProgressEvent(w, file_tasks[worker[w].item],
                         worker[w].bytes_written))
    /\ worker' = [worker EXCEPT ![w].pc = "loop", ![w].since = 0]
    /\ UNCHANGED <<env_vars, plan_vars, main_pc, cpu_count, num_processes,
                   next_task, outqueue, results, manager_up, mon_vars, disk,
                   received, killed>>

\* the loop has ended and the with block is left: the file object is
\* flushed and closed; a flush that fails raises
Close(w) ==
    /\ worker[w].pc = "loop"
    /\ ~(worker[w].bytes_written < file_tasks[worker[w].item].size)
    /\ LET i == worker[w].item
           fl == Flush(worker[w].buffered, disk[i], rlimit_fsize)
       IN  /\ disk' = [disk EXCEPT ![i] = fl.disk]
           /\ worker' = [worker EXCEPT ![w] =
                  IF fl.ok THEN [@ EXCEPT !.pc = "closed", !.buffered = 0]
                  ELSE Excepted(@)]
    /\ UNCHANGED <<env_vars, plan_vars, main_pc, cpu_count, num_processes,
                   next_task, outqueue, results, queue_vars, mon_vars,
                   hist_vars>>

\* a pool process between the put of its terminal message and the arrival
\* of the task's outcome at the main process
Delivering(pc, wk) ==
    [pc |-> pc, item |-> wk.item, bytes_written |-> 0, since |-> 0, gap |-> 0,
     buffered |-> 0]

\* the file is closed: the "completed" message is put
PutCompleted(w) ==
    /\ worker[w].pc = "closed"
    /\ Put(CompletedEvent(w, file_tasks[worker[w].item]))
    /\ worker' = [worker EXCEPT ![w] = Delivering("return", @)]
    /\ UNCHANGED <<env_vars, plan_vars, main_pc, cpu_count, num_processes, next_task,
                   outqueue, results, manager_up, mon_vars, disk, received,
                   killed>>

\* "return filename, file_size": the pool process sends the result to the
\* main process and is free for the next task
Return(w) ==
    /\ worker[w].pc = "return"
    /\ outqueue' = Append(outqueue, [item |-> worker[w].item, ok |-> TRUE])
    /\ worker' = [worker EXCEPT ![w] = IdleWorker]
    /\ UNCHANGED <<env_vars, plan_vars, main_pc, cpu_count, num_processes, next_task,
                   results, queue_vars, mon_vars, disk, hist_vars>>

\* "except Exception": the "error" message is put
PutError(w) ==
    /\ worker[w].pc = "except"
    /\ Put(ErrorEvent(w, file_tasks[worker[w].item]))
    /\ worker' = [worker EXCEPT ![w] = Delivering("raise", @)]
    /\ UNCHANGED <<env_vars, plan_vars, main_pc, cpu_count, num_processes, next_task,
                   outqueue, results, manager_up, mon_vars, disk, received,
                   killed>>

\* "raise": the pool process sends the exception to the main process as
\* the task's outcome and is free for the next task
Raise(w) ==
    /\ worker[w].pc = "raise"
    /\ outqueue' = Append(outqueue, [item |-> worker[w].item, ok |-> FALSE])
    /\ worker' = [worker EXCEPT ![w] = IdleWorker]
    /\ UNCHANGED <<env_vars, plan_vars, main_pc, cpu_count, num_processes, next_task,
                   results, queue_vars, mon_vars, disk, hist_vars>>

\* ------------------------------------------------------ progress_monitor
\* a table in which "started" does not replace the entry a pid already has
InfoAfterStale(table, info) ==
    IF info.status = "started" /\ table[info.pid] = NoInfo
    THEN [table EXCEPT ![info.pid] =
             [filename |-> info.filename, bytes_written |-> 0,
              file_size |-> info.file_size]]
    ELSE table

\* process_info after the event: "started" stores a fresh entry, "progress"
\* creates a missing entry and updates it, other events leave it alone
InfoAfter(table, info) ==
    IF info.status = "started"
    THEN [table EXCEPT ![info.pid] =
             [filename |-> info.filename, bytes_written |-> 0,
              file_size |-> info.file_size]]
    ELSE IF info.status = "progress"
    THEN [table EXCEPT ![info.pid] =
             [filename |-> IF @ = NoInfo THEN info.filename ELSE @.filename,
              bytes_written |-> info.bytes_written,
              file_size |-> info.file_size]]
    ELSE table

\* "if pid in process_info" of the "completed" branch
Counts(table, info) == info.status = "completed" /\ table[info.pid] # NoInfo

CompletedFilesAfter(done, table, info) ==
    IF Counts(table, info) THEN done + 1 ELSE done

\* a tally that also adds the bytes reported by progress messages
CompletedSizeAfterProgress(size, table, info) ==
    IF Counts(table, info) THEN size + table[info.pid].file_size
    ELSE IF info.status = "progress" THEN size + info.bytes_written
    ELSE size

CompletedSizeAfter(size, table, info) ==
    IF Counts(table, info) THEN size + table[info.pid].file_size ELSE size

\* the thread enters progress_monitor and evaluates its loop condition for
\* the first time
MonitorEnter ==
    /\ mon_pc = "entry"
    /\ mon_pc' = IF MonitorLoops(completed_files, Len(file_tasks))
                 THEN "loop" ELSE "done"
    /\ UNCHANGED <<env_vars, plan_vars, main_pc, pool_vars, queue_vars,
                   process_info, completed_files, completed_size, disk,
                   hist_vars>>

\* one pass of the loop body in which progress_queue.get returns a message,
\* followed by the evaluation of the loop condition; when the condition is
\* false the summary is printed and the thread ends.  A pass in which get
\* raises (queue.Empty after the one second timeout, or a connection error
\* once the manager is shut down) is swallowed by the bare except, changes
\* nothing and comes back to the same loop condition: it is a stuttering
\* step.
MonitorGet ==
    /\ mon_pc = "loop"
    /\ manager_up
    /\ progress_queue # <<>>
    /\ LET info == Head(progress_queue)
       IN  /\ progress_queue' = Tail(progress_queue)
           /\ process_info' = InfoAfter(process_info, info)
           /\ completed_files' = CompletedFilesAfter(completed_files, process_info, info)
           /\ completed_size' = CompletedSizeAfter(completed_size, process_info, info)
           /\ received' = [received EXCEPT ![ItemOf(info.filename)] = info]
    /\ mon_pc' = IF MonitorLoops(completed_files', Len(file_tasks))
                 THEN "loop" ELSE "done"
    /\ UNCHANGED <<env_vars, plan_vars, main_pc, pool_vars, manager_up, disk, emitted, killed>>

\* ------------------------------------------------------ specification
MainNext ==
    \/ StartManager \/ StartMonitor \/ CreatePool
    \/ ConsumeResult \/ TerminatePool \/ Join \/ ShutdownAndReturn

WorkerNext(w) ==
    \/ TakeTask(w) \/ PutStarted(w) \/ Open(w)
    \/ Chunk(w) \/ CheckReport(w) \/ PutProgress(w) \/ Close(w)
    \/ PutCompleted(w) \/ Return(w) \/ PutError(w) \/ Raise(w)

MonitorNext == MonitorEnter \/ MonitorGet

Next == MainNext \/ (\E w \in Pids : WorkerNext(w)) \/ MonitorNext

Spec == Init /\ [][Next]_vars

\* the main thread and every pool process are scheduled whenever they can
\* take a step; nothing is assumed about the monitor thread
FairSpec ==
    Spec /\ WF_vars(MainNext) /\ \A w \in Pids : WF_vars(WorkerNext(w))

\* ====================================================== properties
\* ------------------------------------------------------ vocabulary
\* what the events put on the queue say about item i
WasRun(i) == emitted[i].status # "none"
ItemCompleted(i) == emitted[i].status = "completed"
ItemFailed(i) == emitted[i].status = "error"
ItemTerminal(i) == ItemCompleted(i) \/ ItemFailed(i)

FailedItems == {i \in Items : ItemFailed(i)}

\* the "with multiprocessing.Pool" block has been left
PoolLeft == main_pc \in {"join", "joined", "returned"}

\* the configuration the planner is specified for
ValidConfig ==
    /\ IsWhole(total_size_bytes) /\ IsWhole(min_file_size) /\ IsWhole(max_file_size)
    /\ total_size_bytes > 0
    /\ 0 < min_file_size
    /\ min_file_size <= max_file_size

\* the configuration errors of the specification
InvalidConfig ==
    \/ total_size_bytes <= 0
    \/ min_file_size <= 0
    \/ max_file_size <= 0
    \/ min_file_size > max_file_size

CeilDiv(a, b) == (a + b - 1) \div b

\* ------------------------------------------------------ C1
\* C1 (partial-failure isolation): once the pool block has been left in a
\* run in which exactly one item failed, every other item has completed,
\* and the failing item is the only one without a "completed" event.
C1_IsolationClaim ==
    (PoolLeft /\ Cardinality(FailedItems) = 1) =>
        \A i \in Items : i \notin FailedItems => ItemCompleted(i)

\* ------------------------------------------------------ C2
\* C2 (the pool call returns after all items are terminal): whenever the
\* pool block has been left, every planned item has emitted its terminal
\* event.
C2_PoolReturnClaim ==
    PoolLeft => \A i \in Items : WasRun(i) /\ ItemTerminal(i)

\* ------------------------------------------------------ C3
ReceivedCompleted ==
    Cardinality({i \in Items : received[i].status = "completed"})
ReceivedFailed ==
    Cardinality({i \in Items : received[i].status = "error"})

\* C3 (monitor termination): once the monitor has consumed a terminal event
\* of every planned item (completed + failed = total), it has left its
\* draining loop.
C3_MonitorExitClaim ==
    (mon_pc # "unstarted" /\ ReceivedCompleted + ReceivedFailed = Len(file_tasks))
        => mon_pc = "done"

\* ------------------------------------------------------ C4
\* the size of the failed items, F
RECURSIVE FailedSize(_)
FailedSize(S) ==
    IF S = {} THEN 0
    ELSE LET i == CHOOSE x \in S : TRUE
         IN  file_tasks[i].size + FailedSize(S \ {i})

\* C4 (global tally): when the batch is over and every event has been
\* consumed, completed_files = N - K and completed_size = B - F, where K
\* items summing to F bytes failed.
C4_TallyClaim ==
    (PoolLeft /\ progress_queue = <<>>) =>
        /\ completed_files = Len(file_tasks) - Cardinality(FailedItems)
        /\ completed_size = SumSizes(file_tasks) - FailedSize(FailedItems)

\* ------------------------------------------------------ C5
\* C5 (partition sum): for a valid integral configuration the running
\* total never exceeds total_size_bytes, and when the planning loop has
\* ended the planned sizes sum exactly to total_size_bytes.
C5_PartitionSum ==
    ValidConfig =>
        /\ bytes_written_total <= total_size_bytes
        /\ bytes_written_total = SumSizes(file_tasks)
        /\ main_pc = "planned" => SumSizes(file_tasks) = total_size_bytes

\* a plan of several items of different sizes has been completed
C5_Witness ==
    /\ ValidConfig
    /\ main_pc = "planned"
    /\ Len(file_tasks) >= 2
    /\ \E i, j \in 1..Len(file_tasks) : file_tasks[i].size < file_tasks[j].size
    /\ \E i \in 1..Len(file_tasks) : file_tasks[i].size = max_file_size

\* ------------------------------------------------------ C6
\* bytes remaining before item i was planned
RemainingBefore(i) == total_size_bytes - SumSizes(SubSeq(file_tasks, 1, i - 1))

\* C6 (partition bounds and names): for a valid integral configuration
\* every planned size is positive, every item lies within
\* [min_file_size, max_file_size] unless it is the last one, is smaller than
\* min_file_size and takes all the bytes that remained, and no two items
\* have the same name.
C6_PartitionBounds ==
    ValidConfig =>
        /\ \A i \in 1..Len(file_tasks) :
             /\ file_tasks[i].size > 0
             /\ \/ /\ min_file_size <= file_tasks[i].size
                   /\ file_tasks[i].size <= max_file_size
                \/ /\ i = Len(file_tasks)
                   /\ file_tasks[i].size < min_file_size
                   /\ file_tasks[i].size = RemainingBefore(i)
                   /\ bytes_written_total = total_size_bytes
        /\ \A i, j \in 1..Len(file_tasks) :
             i # j => file_tasks[i].name # file_tasks[j].name

\* a completed plan of at least three items whose last item is undersized
C6_Witness ==
    /\ ValidConfig
    /\ main_pc = "planned"
    /\ Len(file_tasks) >= 3
    /\ file_tasks[Len(file_tasks)].size < min_file_size

\* ------------------------------------------------------ C7
\* C7 (planner termination): for a valid integral configuration the loop
\* never runs more than ceil(total_size_bytes / min_file_size) iterations,
\* every iteration strictly decreases the bytes remaining and leaves them
\* non-negative, and the loop ends.
C7_PlannerTermination ==
    /\ [](ValidConfig => file_count <= CeilDiv(total_size_bytes, min_file_size))
    /\ [][(ValidConfig /\ file_count' # file_count) =>
            /\ bytes_written_total' > bytes_written_total
            /\ total_size_bytes' - bytes_written_total' >= 0]_vars
    /\ (ValidConfig /\ main_pc = "plan") ~> (main_pc = "planned")

\* a plan that took exactly ceil(total / min) iterations, more than one
C7_Witness ==
    /\ ValidConfig
    /\ main_pc = "planned"
    /\ file_count >= 2
    /\ file_count = CeilDiv(total_size_bytes, min_file_size)
    /\ min_file_size < max_file_size

\* ------------------------------------------------------ C8
\* C8 (configuration errors are rejected): with an invalid configuration
\* no item is ever planned and the planning never hands a plan on.
C8_ConfigRejectedClaim ==
    InvalidConfig => (file_tasks = <<>> /\ main_pc \in {"plan", "fatal"})

\* ------------------------------------------------------ C9
\* the event a step puts on the queue, when it puts one
PutsEvent == Len(progress_queue') > Len(progress_queue)
EventPut == progress_queue'[Len(progress_queue')]

\* Started comes first and once, Progress and the terminal event follow a
\* Started or a Progress, nothing follows a terminal event
FollowsProtocol(before, status) ==
    \/ before = "none" /\ status = "started"
    \/ before \in {"started", "progress"}
          /\ status \in {"progress", "completed", "error"}

\* C9 (per-task event protocol): every event put for an item continues the
\* sequence Started, Progress*, (Completed | Failed) of that item, and once
\* the pool block has been left every item that was run has emitted its
\* terminal event.
C9_EventProtocolClaim ==
    /\ [][PutsEvent =>
            FollowsProtocol(emitted[ItemOf(EventPut.filename)].status,
                            EventPut.status)]_vars
    /\ [](PoolLeft => \A i \in Items : WasRun(i) => ItemTerminal(i))

\* ------------------------------------------------------ C10
\* the tasks being executed: Started emitted, no terminal event yet, the
\* process not terminated
Executing == {i \in Items : WasRun(i) /\ ~ItemTerminal(i) /\ i \notin killed}

\* at most num_processes tasks are executing, no pool process beyond
\* num_processes ever works, and no item is run by two processes at once
ConcurrencyBound ==
    /\ Cardinality(Executing) <= num_processes
    /\ \A w \in Pids : w > num_processes => worker[w].item = 0
    /\ \A v, w \in Pids :
         (v # w /\ Busy(worker[v]) /\ Busy(worker[w]))
             => worker[v].item # worker[w].item

\* C10 (concurrency bound): at most P tasks execute at any instant, one per
\* pool process, and when the run is over every item has reached a terminal
\* state.
C10_ConcurrencyClaim ==
    /\ ConcurrencyBound
    /\ main_pc = "returned" => \A i \in Items : ItemTerminal(i)

\* ------------------------------------------------------ C11
\* the step hands item i to generate_single_file
HandsOver(i) ==
    \E w \in Pids : /\ worker[w].pc = "idle"
                    /\ worker'[w].pc = "entered"
                    /\ worker'[w].item = i

C12_ByteFidelityClaim ==
    /\ \A i \in Items : ItemCompleted(i) => disk[i] = file_tasks[i].size
    /\ \A w \in Pids :
         worker[w].pc \in {"loop", "written", "report"} =>
            /\ 0 <= worker[w].bytes_written
            /\ worker[w].bytes_written <= file_tasks[worker[w].item].size
            /\ disk[worker[w].item] + worker[w].buffered
                  = worker[w].bytes_written

\* ------------------------------------------------------ C13
\* C13 (monotonic progress): every "progress" event put for an item
\* carries a bytes_written that is not below the one of the item's
\* previous event (0 for "started") and not above the item's target size,
\* and when "completed" is put the task's bytes_written equals the target
\* size.
C13_MonotonicProgress ==
    [][PutsEvent =>
         LET i == ItemOf(EventPut.filename)
         IN  /\ EventPut.status = "progress" =>
                   /\ emitted[i].bytes_written <= EventPut.bytes_written
                   /\ EventPut.bytes_written <= file_tasks[i].size
                   /\ EventPut.file_size = file_tasks[i].size
             /\ EventPut.status = "completed" =>
                   worker[EventPut.pid].bytes_written = file_tasks[i].size]_vars

\* an item has put two progress events: the monitor has consumed the one
\* after the first chunk, the one after the second chunk has been put
C13_Witness ==
    \E i \in Items :
        /\ received[i].status = "progress"
        /\ received[i].bytes_written = Bytes(buffer_size)
        /\ emitted[i].status = "progress"
        /\ emitted[i].bytes_written = file_tasks[i].size
        /\ received[i].bytes_written < emitted[i].bytes_written

\* ------------------------------------------------------ C14
\* C14 (global tally): completed_files never exceeds the number of planned
\* items, completed_size never exceeds total_size_bytes, and no step
\* decreases either counter.
C14_GlobalTally ==
    /\ [](/\ completed_files <= Len(file_tasks)
          /\ completed_size <= total_size_bytes)
    /\ [][/\ completed_files' >= completed_files
          /\ completed_size' >= completed_size]_vars

\* the monitor has tallied every item of a two-item plan whose events came
\* from two pool processes, the large item after a progress report
C14_Witness ==
    /\ Len(file_tasks) = 2
    /\ completed_files = Len(file_tasks)
    /\ completed_size = total_size_bytes
    /\ process_info[1] # NoInfo
    /\ process_info[2] # NoInfo
    /\ \E p \in Pids : process_info[p].bytes_written > 0

\* ------------------------------------------------------ C15
\* C15 (exclusive open): when a task leaves its open while the target path
\* already exists, the open has failed, so the task does not enter its
\* write loop (it goes on to emit "error"), and the file is left as it
\* was, neither truncated nor overwritten.
C15_ExclusiveOpenClaim ==
    [][\A w \in Pids :
         (/\ worker[w].pc = "started"
          /\ worker'[w].pc # "started"
          /\ disk[worker[w].item] # -1)
            => /\ worker'[w].pc # "loop"
               /\ disk'[worker[w].item] = disk[worker[w].item]]_vars

\* ------------------------------------------------------ C16
\* the last event the monitor has consumed from pool process p: a process
\* runs its items in plan order, so it is the last event of the highest
\* item of p the monitor has heard of
LastConsumedFrom(p) ==
    LET S == {i \in Items : received[i].pid = p}
    IN  IF S = {} THEN NoEvent
        ELSE received[CHOOSE i \in S : \A j \in S : j <= i]

\* C16 (WorkerState lifecycle): process_info holds an entry for a pool
\* process only if the last event consumed from that process is "started"
\* or "progress"; the entry is gone once the process's "completed" or
\* "error" has been consumed.
C16_LifecycleClaim ==
    \A p \in Pids :
        process_info[p] # NoInfo
            => LastConsumedFrom(p).status \in {"started", "progress"}

\* ------------------------------------------------------ C17
\* os.urandom cannot deliver a chunk of this length
UrandomFails(n) == "urandom" \notin Sources(n)

\* C17 (random-source fallback): when os.urandom fails for a chunk and the
\* task nevertheless goes on in its loop (the fallback generator has
\* delivered the chunk), the bytes written (those in the file and those in
\* the buffer of the file object) have grown by the requested chunk length
\* and bytes_written has advanced by it.
C17_FallbackClaim ==
    [][\A w \in Pids :
         LET i == worker[w].item
             n == CurrentBufferSize(file_tasks[i].size, worker[w].bytes_written)
         IN  (/\ worker[w].pc = "loop"
              /\ worker[w].bytes_written < file_tasks[i].size
              /\ UrandomFails(n)
              /\ worker'[w].pc = "written")
                => /\ worker'[w].bytes_written = worker[w].bytes_written + n
                   /\ disk'[i] + worker'[w].buffered
                         = disk[i] + worker[w].buffered + n]_vars

\* ------------------------------------------------------ C18
\* the step puts a "progress" event of pool process w
PutsProgress(w) ==
    PutsEvent /\ EventPut.status = "progress" /\ EventPut.pid = w

\* the step is the report check of pool process w after a chunk
ChecksReport(w) ==
    worker[w].pc = "written" /\ worker'[w].pc \in {"loop", "report"}

\* the step takes pool process w on from a report check that found the
\* report due
LeavesDueReport(w) == worker[w].pc = "report" /\ worker'[w].pc # "report"

\* C18 (progress rate limit): after a chunk the time since the previous
\* "progress" event of the task (since the task's start for the first one)
\* is compared with the report interval; a "progress" event is put exactly
\* when the comparison found at least the interval: none is put otherwise,
\* and one is put whenever it did, after which the time is counted from
\* that event again; and a task whose "completed" follows its "started"
\* without a "progress" event has never measured a full interval
\* ("started" and "completed" are put all the same).
C18_RateLimit ==
    /\ [][\A w \in Pids :
            /\ PutsProgress(w) =>
                  worker[w].pc = "report" /\ worker[w].gap >= ReportInterval
            /\ ChecksReport(w) =>
                  /\ worker'[w].gap >= worker[w].since
                  /\ worker'[w].pc = "report"
                        <=> worker'[w].gap >= ReportInterval
            /\ LeavesDueReport(w) =>
                  PutsProgress(w) /\ worker'[w].since = 0]_vars
    /\ [][(PutsEvent /\ EventPut.status = "completed"
             /\ emitted[ItemOf(EventPut.filename)].status = "started")
            => worker[EventPut.pid].gap < ReportInterval]_vars

\* ------------------------------------------------------ C19
\* the step takes an event off the progress queue
ConsumesEvent == Len(progress_queue') < Len(progress_queue)
EventConsumed == Head(progress_queue)

\* C19 (tally attribution): every "completed" event the monitor consumes
\* finds an entry for its pid, adds 1 to completed_files and adds the
\* target size of the item named in the event to completed_size; a
\* "started", "progress" or "error" event changes neither counter.
C19_TallyAttribution ==
    [][ConsumesEvent =>
         IF EventConsumed.status = "completed"
         THEN /\ process_info[EventConsumed.pid] # NoInfo
              /\ completed_files' = completed_files + 1
              /\ completed_size' = completed_size
                    + file_tasks[ItemOf(EventConsumed.filename)].size
         ELSE /\ completed_files' = completed_files
              /\ completed_size' = completed_size]_vars

\* one pool process has run two items of different sizes, and the monitor
\* has tallied both
C19_Witness ==
    /\ Len(file_tasks) = 2
    /\ received[1].status = "completed"
    /\ received[2].status = "completed"
    /\ received[1].pid = received[2].pid
    /\ file_tasks[1].size # file_tasks[2].size
    /\ completed_files = 2
    /\ completed_size = file_tasks[1].size + file_tasks[2].size

\* ------------------------------------------------------ C20
\* C20 (the top-level call always returns): with the main thread and the
\* pool processes scheduled fairly, and whatever the monitor thread does,
\* generate_random_bin_files_parallel eventually returns, in every run.
\* (The value returned is file_count, the number of planned items.)
C20_AlwaysReturnsClaim == <>(main_pc = "returned")
====
